---------------------------- MODULE Spec2Model ----------------------------
(***************************************************************************)
(* Model of api/stitch.go: the Stitch admin API client.                    *)
(*                                                                         *)
(* Texts (response bodies, error messages) are sequences of lexemes.  A    *)
(* lexeme is a record [t, v]: t is its kind and v its content (a sequence  *)
(* of strings).  JSON decoding is computed on the lexemes the way          *)
(* encoding/json's Decoder does it: scan the first value of the stream,    *)
(* then unmarshal that value into the target type.                         *)
(***************************************************************************)
EXTENDS Integers, Sequences, FiniteSets, TLC

VARIABLES
    nr,      \* UnmarshalReader: the io.Reader it is given
    npc,     \* UnmarshalReader: "idle" | "start" | "done"
    nret,    \* UnmarshalReader: the error it returned
    op,      \* the StitchClient operation invoked ("none" before the call)
    arg,     \* its arguments: [serializable, clientAppID]
    pc,      \* "idle" | "loop" (FetchAppByClientAppID's group loop) | "done" | "panic"
    reqs,    \* the requests handed to Client.ExecuteRequest, in order
    resps,   \* the transport's answer to each request, with the body's Close() count
    groups,  \* profileData.AllGroupIDs()
    idx,     \* the position of the group loop in groups
    ret      \* what the operation returned

nvars == <<nr, npc, nret>>
ovars == <<op, arg, pc, reqs, resps, groups, idx, ret>>
vars == <<nr, npc, nret, op, arg, pc, reqs, resps, groups, idx, ret>>

-----------------------------------------------------------------------------
(* Bounds *)

MaxBodyLen == 4
MaxGroups == 2
MaxApps == 2
MaxParams == 2

-----------------------------------------------------------------------------
(* net/http status codes the code compares with *)

StatusOK == 200
StatusNoContent == 204
StatusNotFound == 404

-----------------------------------------------------------------------------
(* Lexemes *)

Tok(t) == [t |-> t, v |-> <<>>]
LB == Tok("{")
RB == Tok("}")
LSQ == Tok("[")
RSQ == Tok("]")
COMMA == Tok(",")
NULL == Tok("null")
NUM == Tok("num")
\* a JSON string literal with content c
Str(c) == [t |-> "str", v |-> <<c>>]
\* raw text c that is no JSON lexeme
Txt(c) == [t |-> "txt", v |-> <<c>>]
\* an object member  "key": value  with a scalar value of kind "str", "num" or "null"
Mem(k, kind, val) == [t |-> "mem", v |-> <<k, kind, val>>]

\* the text of a Go string: empty, or its characters
Text(c) == IF c = "" THEN <<>> ELSE <<Txt(c)>>

ErrX == Mem("error", "str", "X")
ErrNum == Mem("error", "num", "")
ErrNull == Mem("error", "null", "")
MsgM == Mem("message", "str", "m")

-----------------------------------------------------------------------------
(* encoding/json: the scanner.  Scan*(s, i) is the index after the value   *)
(* that starts at s[i], or 0 when no well-formed value starts there.       *)

RECURSIVE ScanValue(_, _), ScanMembers(_, _), ScanElems(_, _)

ScanValue(s, i) ==
    IF i > Len(s) THEN 0
    ELSE CASE s[i].t \in {"null", "num", "str"} -> i + 1
           [] s[i].t = "{" ->
                IF i + 1 <= Len(s) /\ s[i + 1].t = "}" THEN i + 2
                ELSE ScanMembers(s, i + 1)
           [] s[i].t = "[" ->
                IF i + 1 <= Len(s) /\ s[i + 1].t = "]" THEN i + 2
                ELSE ScanElems(s, i + 1)
           [] OTHER -> 0

ScanMembers(s, i) ==
    IF i + 1 > Len(s) THEN 0
    ELSE IF s[i].t # "mem" THEN 0
    ELSE IF s[i + 1].t = "}" THEN i + 2
    ELSE IF s[i + 1].t = "," THEN ScanMembers(s, i + 2)
    ELSE 0

ScanElems(s, i) ==
    LET j == ScanValue(s, i) IN
    IF j = 0 \/ j > Len(s) THEN 0
    ELSE IF s[j].t = "]" THEN j + 1
    ELSE IF s[j].t = "," THEN ScanElems(s, j + 1)
    ELSE 0

\* the lexemes of the first value of the stream (<<>> when there is none)
FirstValue(s) ==
    LET j == ScanValue(s, 1) IN IF j = 0 THEN <<>> ELSE SubSeq(s, 1, j - 1)

-----------------------------------------------------------------------------
(* Errors.  kind "none" is the nil error.                                  *)

Err(kind, id, msg) == [kind |-> kind, id |-> id, msg |-> msg]
NoErr == Err("none", "", <<>>)
\* the reader's own failure
ReadErr == Err("read", "io", <<>>)
\* encoding/json's errors: io.EOF, *SyntaxError / io.ErrUnexpectedEOF, *UnmarshalTypeError
DecodeErr(id) == Err("decode", id, <<>>)
\* ErrStitchResponse{data: {Error: msg}}
StitchErr(msg) == Err("stitch", "", msg)

\* ErrStitchResponse.Error()
ErrorString(e) == <<Txt("error: ")>> \o e.msg

-----------------------------------------------------------------------------
(* Decoding into errStitchResponseData                                     *)

RECURSIVE ErrorOfMembers(_, _, _)
\* the struct's Error field after the members of  val  from index i on are
\* stored, starting from cur: [err, Error].  A member "error" holding a
\* string sets the field, null leaves it, any other value is a type error
\* (decoding goes on; the first error is returned at the end).
ErrorOfMembers(val, i, cur) ==
    IF i > Len(val) THEN cur
    ELSE IF val[i].t = "mem" /\ val[i].v[1] = "error"
         THEN CASE val[i].v[2] = "str" ->
                     ErrorOfMembers(val, i + 1, [cur EXCEPT !.Error = Text(val[i].v[3])])
                [] val[i].v[2] = "null" -> ErrorOfMembers(val, i + 1, cur)
                [] OTHER -> ErrorOfMembers(val, i + 1, [cur EXCEPT !.err = DecodeErr("type")])
         ELSE ErrorOfMembers(val, i + 1, cur)

\* json.Unmarshal(data, &esr.data): data is one well-formed value
UnmarshalErrData(val) ==
    CASE val[1].t = "null" -> [err |-> NoErr, Error |-> <<>>]
      [] val[1].t = "{" -> ErrorOfMembers(val, 2, [err |-> NoErr, Error |-> <<>>])
      [] OTHER -> [err |-> DecodeErr("type"), Error |-> <<>>]

\* json.NewDecoder(&buf).Decode(&stitchResponse): reads the first value of
\* the stream and hands it to ErrStitchResponse.UnmarshalJSON; what follows
\* the value is left in the stream.
DecodeStitchResponse(s) ==
    IF Len(s) = 0 THEN [err |-> DecodeErr("EOF"), Error |-> <<>>]
    ELSE IF ScanValue(s, 1) = 0 THEN [err |-> DecodeErr("syntax"), Error |-> <<>>]
    ELSE UnmarshalErrData(FirstValue(s))

\* UnmarshalReader without line 58: a failed decode leaves the message empty
UnmarshalReader_KeepsDecoded(r) ==
    IF ~r.readable THEN ReadErr ELSE StitchErr(DecodeStitchResponse(r.text).Error)

\* UnmarshalReader(r): r is [text, readable]
UnmarshalReader(r) ==
    IF ~r.readable THEN ReadErr
    ELSE LET str == r.text
             d == DecodeStitchResponse(str)
         IN  IF d.err # NoErr THEN StitchErr(str) ELSE StitchErr(d.Error)

-----------------------------------------------------------------------------
(* Readers (response bodies)                                               *)

Body(text) == [text |-> text, readable |-> TRUE]
\* a body whose Read fails
Unreadable == [text |-> <<>>, readable |-> FALSE]

RECURSIVE SeqsUpTo(_, _)
SeqsUpTo(S, n) ==
    IF n = 0 THEN {<<>>}
    ELSE LET shorter == SeqsUpTo(S, n - 1) IN
         shorter \cup {Append(s, x) : s \in {t \in shorter : Len(t) = n - 1}, x \in S}

\* what json.NewDecoder(r).Decode(&v) fails with before v's type matters
DecodePrelude(r) ==
    IF ~r.readable THEN ReadErr
    ELSE IF Len(r.text) = 0 THEN DecodeErr("EOF")
    ELSE IF ScanValue(r.text, 1) = 0 THEN DecodeErr("syntax")
    ELSE NoErr

RECURSIVE Elems(_, _)
\* the elements of the non-empty array val, the first starting at val[i]
Elems(val, i) ==
    LET j == ScanValue(val, i) IN
    <<SubSeq(val, i, j - 1)>> \o (IF val[j].t = "]" THEN <<>> ELSE Elems(val, j + 1))

ElemsOf(val) == IF Len(val) = 2 THEN <<>> ELSE Elems(val, 2)

\* the last member of object val with key k (<<>> when there is none)
MembersOf(val, k) == SelectSeq(val, LAMBDA x : x.t = "mem" /\ x.v[1] = k)
LastOf(ms) == IF Len(ms) = 0 THEN <<>> ELSE <<ms[Len(ms)]>>
LastMember(val, k) == LastOf(MembersOf(val, k))
\* the string field k of a struct decoded from object val: [bad, val].  A
\* string sets the field, null leaves it, a number is a type error.
IsStrMem(x) == x.v[2] = "str"
LastStr(strs) == IF Len(strs) = 0 THEN "" ELSE strs[Len(strs)].v[3]
FieldOfMembers(ms) ==
    [bad |-> \E i \in 1..Len(ms) : ms[i].v[2] = "num",
     val |-> LastStr(SelectSeq(ms, IsStrMem))]
StringField(val, k) == FieldOfMembers(MembersOf(val, k))

-----------------------------------------------------------------------------
(* auth.Response, decoded at Authenticate                                  *)

RenderAuth(token) == <<LB, Mem("access_token", "str", token), RB>>

\* the struct after json.Unmarshal of the well-formed value val
AuthOfField(f) == [err |-> IF f.bad THEN DecodeErr("type") ELSE NoErr, auth |-> f.val]
AuthOfValue(pre, val) ==
    IF pre # NoErr THEN [err |-> pre, auth |-> ""]
    ELSE CASE val[1].t = "null" -> [err |-> NoErr, auth |-> ""]
           [] val[1].t = "{" -> AuthOfField(StringField(val, "access_token"))
           [] OTHER -> [err |-> DecodeErr("type"), auth |-> ""]

DecodeAuth(r) == AuthOfValue(DecodePrelude(r), FirstValue(r.text))

-----------------------------------------------------------------------------
(* []string, decoded at Diff                                               *)

RECURSIVE RenderList(_)
\* the elements' lexemes, separated by commas
RenderList(es) ==
    IF Len(es) = 0 THEN <<>>
    ELSE IF Len(es) = 1 THEN es[1]
    ELSE es[1] \o <<COMMA>> \o RenderList(Tail(es))

RenderArray(es) == <<LSQ>> \o RenderList(es) \o <<RSQ>>

\* the slice after the array's elements es are stored: a string or null each
DiffsOfElems(es) ==
    IF \E i \in 1..Len(es) : es[i][1].t \notin {"str", "null"}
    THEN [err |-> DecodeErr("type"), diffs |-> <<>>]
    ELSE [err |-> NoErr,
          diffs |-> [i \in 1..Len(es) |-> IF es[i][1].t = "str" THEN es[i][1].v[1] ELSE ""]]

DiffsOfValue(pre, val) ==
    IF pre # NoErr THEN [err |-> pre, diffs |-> <<>>]
    ELSE CASE val[1].t = "null" -> [err |-> NoErr, diffs |-> <<>>]
           [] val[1].t = "[" -> DiffsOfElems(ElemsOf(val))
           [] OTHER -> [err |-> DecodeErr("type"), diffs |-> <<>>]

DecodeDiffs(r) == DiffsOfValue(DecodePrelude(r), FirstValue(r.text))

-----------------------------------------------------------------------------
(* models.UserProfile, decoded at FetchAppByClientAppID                    *)

\* the member "roles": one role per group id, in order
RolesMem(gs) == [t |-> "mem", v |-> <<"roles", "list">> \o gs]
RenderProfile(gs) == <<LB, RolesMem(gs), RB>>

\* the profile after its member "roles" (m: <<>> or <<the member>>) is stored
ProfileOfRoles(m) ==
    IF Len(m) = 0 THEN [err |-> NoErr, roles |-> <<>>]
    ELSE IF m[1].v[2] = "list"
    THEN [err |-> NoErr, roles |-> SubSeq(m[1].v, 3, Len(m[1].v))]
    ELSE IF m[1].v[2] = "null" THEN [err |-> NoErr, roles |-> <<>>]
    ELSE [err |-> DecodeErr("type"), roles |-> <<>>]

ProfileOfValue(pre, val) ==
    IF pre # NoErr THEN [err |-> pre, roles |-> <<>>]
    ELSE CASE val[1].t = "null" -> [err |-> NoErr, roles |-> <<>>]
           [] val[1].t = "{" -> ProfileOfRoles(LastMember(val, "roles"))
           [] OTHER -> [err |-> DecodeErr("type"), roles |-> <<>>]

DecodeProfile(r) == ProfileOfValue(DecodePrelude(r), FirstValue(r.text))

\* UserProfile.AllGroupIDs(): the roles' group ids, in the profile's order
AllGroupIDs(profile) == profile.roles

-----------------------------------------------------------------------------
(* []*models.App, decoded at fetchAppsByGroupID                            *)

App(cid, id) == [nil |-> FALSE, ClientAppID |-> cid, ID |-> id]
\* a nil *models.App
NilApp == [nil |-> TRUE, ClientAppID |-> "", ID |-> ""]

RenderApp(a) ==
    IF a.nil THEN <<NULL>>
    ELSE <<LB, Mem("client_app_id", "str", a.ClientAppID), COMMA, Mem("_id", "str", a.ID), RB>>

RenderApps(apps) == RenderArray([i \in 1..Len(apps) |-> RenderApp(apps[i])])

\* one element of the array into a *models.App: [bad, app]
AppOfFields(c, i) == [bad |-> c.bad \/ i.bad, app |-> App(c.val, i.val)]
AppOfElem(e) ==
    CASE e[1].t = "null" -> [bad |-> FALSE, app |-> NilApp]
      [] e[1].t = "{" -> AppOfFields(StringField(e, "client_app_id"), StringField(e, "_id"))
      [] OTHER -> [bad |-> TRUE, app |-> NilApp]

\* the slice after the decoded elements ds are stored
AppsOfDecoded(ds) ==
    IF \E i \in 1..Len(ds) : ds[i].bad
    THEN [err |-> DecodeErr("type"), apps |-> <<>>]
    ELSE [err |-> NoErr, apps |-> [i \in 1..Len(ds) |-> ds[i].app]]

AppsOfElems(es) == AppsOfDecoded([i \in 1..Len(es) |-> AppOfElem(es[i])])

AppsOfValue(pre, val) ==
    IF pre # NoErr THEN [err |-> pre, apps |-> <<>>]
    ELSE CASE val[1].t = "null" -> [err |-> NoErr, apps |-> <<>>]
           [] val[1].t = "[" -> AppsOfElems(ElemsOf(val))
           [] OTHER -> [err |-> DecodeErr("type"), apps |-> <<>>]

DecodeApps(r) == AppsOfValue(DecodePrelude(r), FirstValue(r.text))

-----------------------------------------------------------------------------
(* mime.ParseMediaType on the Content-Disposition header.  A header is     *)
(* [mediatype, params]: whether a media type leads it, and its parameters  *)
(* in order; a parameter is [name, value, ok], ok FALSE when it is not of  *)
(* the form name=value.                                                    *)

Param(n, v) == [name |-> n, value |-> v, ok |-> TRUE]
BadParam == [name |-> "", value |-> "", ok |-> FALSE]
NoHeader == [mediatype |-> FALSE, params |-> <<>>]

MimeErr(id) == Err("mime", id, <<>>)

ParseMediaType(h) ==
    IF ~h.mediatype THEN [err |-> MimeErr("no media type"), params |-> <<>>]
    ELSE IF \E i \in 1..Len(h.params) : ~h.params[i].ok
    THEN [err |-> MimeErr("invalid media parameter"), params |-> <<>>]
    ELSE IF \E i, j \in 1..Len(h.params) : i < j /\ h.params[i].name = h.params[j].name
    THEN [err |-> MimeErr("duplicate parameter name"), params |-> <<>>]
    ELSE [err |-> NoErr, params |-> h.params]

\* params[name]: the zero value "" when the map has no such key
FirstValueOf(ps) == IF Len(ps) = 0 THEN "" ELSE ps[1].value
ParamValue(params, n) == FirstValueOf(SelectSeq(params, LAMBDA p : p.name = n))

-----------------------------------------------------------------------------
(* The transport's answers, and what an operation returns                  *)

Req(route, groupID) == [route |-> route, groupID |-> groupID]

\* ExecuteRequest returned (res, nil)
Response(status, header, body) ==
    [ok |-> TRUE, terr |-> "", status |-> status, header |-> header, body |-> body,
     closed |-> 0]
\* ExecuteRequest returned (nil, err)
Failure(e) ==
    [ok |-> FALSE, terr |-> e, status |-> 0, header |-> NoHeader, body |-> Body(<<>>),
     closed |-> 0]

TransportErr(e) == Err("transport", e, <<>>)
MarshalErr == Err("marshal", "", <<>>)
errExportMissingFilename == Err("missingFilename", "", <<>>)
\* fmt.Errorf("unable to find app with ID: %q", clientAppID)
NotFoundErr(clientAppID) == Err("notFound", clientAppID, <<>>)
\* err.Error()
ErrorText(e) == IF e.kind = "stitch" THEN ErrorString(e) ELSE <<Txt(e.kind), Txt(e.id)>>
\* fmt.Errorf("%s: failed to authenticate: %s", res.Status, err)
AuthErr(status, e) == Err("auth", ToString(status), ErrorText(e))

\* res.Body.Close()
Close(res) == [res EXCEPT !.closed = @ + 1]

\* stream is the position in resps of the response whose body is returned (0: nil)
NoRet ==
    [err |-> NoErr, auth |-> "", filename |-> "", stream |-> 0, diffs |-> <<>>,
     app |-> <<>>]
RetErr(e) == [NoRet EXCEPT !.err = e]

-----------------------------------------------------------------------------
(* The operations.  Each takes the transport's answer a to its request and *)
(* yields [reqs, resps, ret].                                              *)

\* Authenticate after decoder.Decode(&authResponse) gave d
AuthDecoded(d) == IF d.err # NoErr THEN RetErr(d.err) ELSE [NoRet EXCEPT !.auth = d.auth]

Authenticate(serializable, a) ==
    IF ~serializable THEN [reqs |-> <<>>, resps |-> <<>>, ret |-> RetErr(MarshalErr)]
    ELSE IF ~a.ok
    THEN [reqs |-> <<Req("login", "")>>, resps |-> <<a>>, ret |-> RetErr(TransportErr(a.terr))]
    ELSE [reqs |-> <<Req("login", "")>>,
          resps |-> <<Close(a)>>,
          ret |-> IF a.status # StatusOK
                  THEN RetErr(AuthErr(a.status, UnmarshalReader(a.body)))
                  ELSE AuthDecoded(DecodeAuth(a.body))]

\* lines 134-140 without the Close of line 136
FilenameRead_Leak(a, filename) ==
    IF filename = ""
    THEN [reqs |-> <<Req("export", "")>>, resps |-> <<a>>,
          ret |-> RetErr(errExportMissingFilename)]
    ELSE [reqs |-> <<Req("export", "")>>, resps |-> <<a>>,
          ret |-> [NoRet EXCEPT !.filename = filename, !.stream = 1]]

\* Export from line 134 on, filename being params["filename"]
FilenameRead(a, filename) ==
    IF filename = ""
    THEN [reqs |-> <<Req("export", "")>>, resps |-> <<Close(a)>>,
          ret |-> RetErr(errExportMissingFilename)]
    ELSE [reqs |-> <<Req("export", "")>>, resps |-> <<a>>,
          ret |-> [NoRet EXCEPT !.filename = filename, !.stream = 1]]

\* Export after mime.ParseMediaType gave m
MediaTypeParsed(a, m) ==
    IF m.err # NoErr
    THEN [reqs |-> <<Req("export", "")>>, resps |-> <<Close(a)>>, ret |-> RetErr(m.err)]
    ELSE FilenameRead(a, ParamValue(m.params, "filename"))

Export(a) ==
    LET rq == <<Req("export", "")>> IN
    IF ~a.ok THEN [reqs |-> rq, resps |-> <<a>>, ret |-> RetErr(TransportErr(a.terr))]
    ELSE IF a.status # StatusOK
    THEN [reqs |-> rq, resps |-> <<Close(a)>>, ret |-> RetErr(UnmarshalReader(a.body))]
    ELSE MediaTypeParsed(a, ParseMediaType(a.header))

\* Diff after Decode(&diffs) gave d
DiffsDecoded(d) == IF d.err # NoErr THEN RetErr(d.err) ELSE [NoRet EXCEPT !.diffs = d.diffs]

\* Diff trying the request once more after a transport failure
Diff_Retry(a) ==
    IF ~a.ok
    THEN [reqs |-> <<Req("diff", ""), Req("diff", "")>>, resps |-> <<a, a>>,
          ret |-> RetErr(TransportErr(a.terr))]
    ELSE [reqs |-> <<Req("diff", "")>>,
          resps |-> <<Close(a)>>,
          ret |-> IF a.status # StatusOK THEN RetErr(UnmarshalReader(a.body))
                  ELSE DiffsDecoded(DecodeDiffs(a.body))]

Diff(a) ==
    LET rq == <<Req("diff", "")>> IN
    IF ~a.ok THEN [reqs |-> rq, resps |-> <<a>>, ret |-> RetErr(TransportErr(a.terr))]
    ELSE [reqs |-> rq,
          resps |-> <<Close(a)>>,
          ret |-> IF a.status # StatusOK THEN RetErr(UnmarshalReader(a.body))
                  ELSE DiffsDecoded(DecodeDiffs(a.body))]

\* Import taking every 2xx status for success
Import_Any2xx(a) ==
    IF ~a.ok
    THEN [reqs |-> <<Req("import", "")>>, resps |-> <<a>>,
          ret |-> RetErr(TransportErr(a.terr))]
    ELSE [reqs |-> <<Req("import", "")>>,
          resps |-> <<Close(a)>>,
          ret |-> IF a.status < 200 \/ a.status > 299 THEN RetErr(UnmarshalReader(a.body))
                  ELSE NoRet]

Import(a) ==
    LET rq == <<Req("import", "")>> IN
    IF ~a.ok THEN [reqs |-> rq, resps |-> <<a>>, ret |-> RetErr(TransportErr(a.terr))]
    ELSE [reqs |-> rq,
          resps |-> <<Close(a)>>,
          ret |-> IF a.status # StatusNoContent THEN RetErr(UnmarshalReader(a.body))
                  ELSE NoRet]

\* lines 209-213 taking an undecodable list for an empty one
AppsDecoded_Swallow(a, d) ==
    IF d.err # NoErr THEN [res |-> Close(a), apps |-> <<>>, err |-> NoErr]
    ELSE [res |-> Close(a), apps |-> d.apps, err |-> NoErr]

\* fetchAppsByGroupID after dec.Decode(&apps) gave d
AppsDecoded(a, d) ==
    IF d.err # NoErr THEN [res |-> Close(a), apps |-> <<>>, err |-> d.err]
    ELSE [res |-> Close(a), apps |-> d.apps, err |-> NoErr]

\* fetchAppsByGroupID with the defer of line 197 placed after the status check
fetchAppsByGroupID_LateDefer(a) ==
    IF ~a.ok THEN [res |-> a, apps |-> <<>>, err |-> TransportErr(a.terr)]
    ELSE IF a.status # StatusOK
    THEN IF a.status = StatusNotFound
         THEN [res |-> a, apps |-> <<>>, err |-> NoErr]
         ELSE [res |-> a, apps |-> <<>>, err |-> UnmarshalReader(a.body)]
    ELSE AppsDecoded(a, DecodeApps(a.body))

\* fetchAppsByGroupID without the 404 case of lines 200-203
fetchAppsByGroupID_404Fatal(a) ==
    IF ~a.ok THEN [res |-> a, apps |-> <<>>, err |-> TransportErr(a.terr)]
    ELSE IF a.status # StatusOK
    THEN [res |-> Close(a), apps |-> <<>>, err |-> UnmarshalReader(a.body)]
    ELSE AppsDecoded(a, DecodeApps(a.body))

\* yields [res, apps, err]: res is the answer after the deferred Close
fetchAppsByGroupID(a) ==
    IF ~a.ok THEN [res |-> a, apps |-> <<>>, err |-> TransportErr(a.terr)]
    ELSE IF a.status # StatusOK
    THEN IF a.status = StatusNotFound
         THEN [res |-> Close(a), apps |-> <<>>, err |-> NoErr]
         ELSE [res |-> Close(a), apps |-> <<>>, err |-> UnmarshalReader(a.body)]
    ELSE AppsDecoded(a, DecodeApps(a.body))

RECURSIVE findFrom(_, _, _)
\* the range loop of findAppByClientAppID from index i on
findFrom(apps, clientAppID, i) ==
    IF i > Len(apps) THEN [panic |-> FALSE, app |-> <<>>]
    ELSE IF apps[i].nil THEN [panic |-> TRUE, app |-> <<>>]
    ELSE IF apps[i].ClientAppID = clientAppID THEN [panic |-> FALSE, app |-> <<apps[i]>>]
    ELSE findFrom(apps, clientAppID, i + 1)

\* yields [panic, app]: reading app.ClientAppID of a nil app is a nil pointer
\* dereference, a run-time panic; app is <<>> for a nil result
findAppByClientAppID(apps, clientAppID) == findFrom(apps, clientAppID, 1)

\* FetchAppByClientAppID after dec.Decode(&profileData) gave d
ProfileDecoded(a, d) ==
    IF d.err # NoErr
    THEN [resps |-> <<Close(a)>>, ret |-> RetErr(d.err), groups |-> <<>>, next |-> "done"]
    ELSE [resps |-> <<a>>, ret |-> NoRet, groups |-> AllGroupIDs(d), next |-> "loop"]

\* FetchAppByClientAppID up to its loop: yields [resps, ret, groups, next],
\* next the pc after it
FetchProfile(a) ==
    IF ~a.ok
    THEN [resps |-> <<a>>, ret |-> RetErr(TransportErr(a.terr)), groups |-> <<>>,
          next |-> "done"]
    ELSE IF a.status # StatusOK
    THEN [resps |-> <<Close(a)>>, ret |-> RetErr(UnmarshalReader(a.body)), groups |-> <<>>,
          next |-> "done"]
    ELSE ProfileDecoded(a, DecodeProfile(a.body))

\* line 241 on, after findAppByClientAppID gave found
AppSought(f, found) ==
    IF found.panic THEN [res |-> f.res, ret |-> NoRet, next |-> "panic"]
    ELSE IF Len(found.app) > 0
    THEN [res |-> f.res, ret |-> [NoRet EXCEPT !.app = found.app], next |-> "done"]
    ELSE [res |-> f.res, ret |-> NoRet, next |-> "loop"]

\* the loop's body after fetchAppsByGroupID gave f
AppsFetched(f, clientAppID) ==
    IF f.err # NoErr THEN [res |-> f.res, ret |-> RetErr(f.err), next |-> "done"]
    ELSE AppSought(f, findAppByClientAppID(f.apps, clientAppID))

\* one iteration of FetchAppByClientAppID's loop: yields [res, ret, next];
\* next is "loop" (go on), "done" (return) or "panic"
FetchLoopBody(a, clientAppID) == AppsFetched(fetchAppsByGroupID(a), clientAppID)

-----------------------------------------------------------------------------
(* What the transport may answer                                           *)

TransportErrs == {"timeout", "tls"}
Statuses == {StatusOK, 201, StatusNoContent, StatusNotFound, 500}
ClientAppIDs == {"x", "y"}
GroupIDs == {"g1", "g2"}
AppPool == {App("x", "a1"), App("x", "a2"), App("y", "a3")}

\* bodies of error responses
ErrTexts == {<<LB, ErrX, RB>>, <<Txt("X")>>, <<LB, RB>>}
\* bodies no decoder accepts
BadTexts == {<<>>, <<Txt("X")>>, <<LSQ, LB>>, <<NUM>>}

ParamPool == {Param("filename", "app.zip"), Param("filename", ""), Param("size", "1"),
              BadParam}
Headers == [mediatype : BOOLEAN, params : SeqsUpTo(ParamPool, MaxParams)]

AuthTexts == {RenderAuth("t"), <<NULL>>, <<LB, Mem("access_token", "num", ""), RB>>}
DiffTexts == {RenderArray(<<<<Str("d1")>>, <<Str("d2")>>>>), RenderArray(<<>>), <<NULL>>,
              RenderArray(<<<<NUM>>>>)}
ProfileTexts == {RenderProfile(gs) : gs \in SeqsUpTo(GroupIDs, MaxGroups)} \cup {<<NULL>>}
AppsTexts == {RenderApps(as) : as \in SeqsUpTo(AppPool \cup {NilApp}, MaxApps)}
                \cup {<<NULL>>, <<LB, RB>>}

Bodies(texts) == {Body(t) : t \in texts} \cup {Unreadable}

\* the answers to a request whose success status is ok: a failure, the status
\* ok with a body of okTexts or one that does not decode, or another status
\* with an error body
Answers(ok, okTexts) ==
    {Failure(e) : e \in TransportErrs}
    \cup {Response(ok, NoHeader, b) : b \in Bodies(okTexts \cup BadTexts)}
    \cup {Response(st, NoHeader, b) : st \in Statuses \ {ok}, b \in Bodies(ErrTexts)}

AuthAnswers == Answers(StatusOK, AuthTexts)
ImportAnswers == Answers(StatusNoContent, {<<>>})
DiffAnswers == Answers(StatusOK, DiffTexts)
ProfileAnswers == Answers(StatusOK, ProfileTexts)
AppsAnswers == Answers(StatusOK, AppsTexts)

ExportAnswers ==
    {Failure(e) : e \in TransportErrs}
    \cup {Response(StatusOK, h, Body(<<Txt("zip")>>)) : h \in Headers}
    \cup {Response(st, h, b) : st \in Statuses \ {StatusOK},
                               h \in {NoHeader, [mediatype |-> TRUE,
                                                 params |-> <<Param("filename", "app.zip")>>]},
                               b \in Bodies(ErrTexts)}

-----------------------------------------------------------------------------
(* The client: one operation per behaviour                                 *)

Init ==
    /\ nr = Body(<<>>)
    /\ npc = "idle"
    /\ nret = NoErr
    /\ op = "none"
    /\ arg = [serializable |-> TRUE, clientAppID |-> ""]
    /\ pc = "idle"
    /\ reqs = <<>>
    /\ resps = <<>>
    /\ groups = <<>>
    /\ idx = 0
    /\ ret = NoRet

\* a call of an operation that makes one request
Returns(name, r) ==
    /\ op' = name
    /\ reqs' = r.reqs
    /\ resps' = r.resps
    /\ ret' = r.ret
    /\ pc' = "done"
    /\ UNCHANGED <<groups, idx, nvars>>

CallAuthenticate ==
    /\ pc = "idle"
    /\ \E s \in BOOLEAN, a \in AuthAnswers :
        /\ arg' = [arg EXCEPT !.serializable = s]
        /\ Returns("Authenticate", Authenticate(s, a))

CallExport ==
    /\ pc = "idle"
    /\ \E a \in ExportAnswers : Returns("Export", Export(a))
    /\ UNCHANGED arg

CallImport ==
    /\ pc = "idle"
    /\ \E a \in ImportAnswers : Returns("Import", Import(a))
    /\ UNCHANGED arg

CallDiff ==
    /\ pc = "idle"
    /\ \E a \in DiffAnswers : Returns("Diff", Diff(a))
    /\ UNCHANGED arg

\* the deferred res.Body.Close() of FetchAppByClientAppID, run when it
\* returns and when a panic unwinds it
CloseProfile(rs) == [rs EXCEPT ![1] = Close(@)]

CallFetchAppByClientAppID ==
    /\ pc = "idle"
    /\ \E id \in ClientAppIDs, a \in ProfileAnswers :
      \E r \in {FetchProfile(a)} :
        /\ op' = "FetchAppByClientAppID"
        /\ arg' = [arg EXCEPT !.clientAppID = id]
        /\ reqs' = <<Req("profile", "")>>
        /\ resps' = r.resps
        /\ ret' = r.ret
        /\ groups' = r.groups
        /\ idx' = 1
        /\ pc' = r.next
        /\ UNCHANGED nvars

FetchGroup ==
    /\ pc = "loop"
    /\ idx <= Len(groups)
    /\ \E a \in AppsAnswers :
      \E r \in {FetchLoopBody(a, arg.clientAppID)} :
        /\ reqs' = Append(reqs, Req("apps", groups[idx]))
        /\ resps' = IF r.next = "loop" THEN Append(resps, r.res)
                    ELSE CloseProfile(Append(resps, r.res))
        /\ ret' = r.ret
        /\ idx' = IF r.next = "loop" THEN idx + 1 ELSE idx
        /\ pc' = r.next
        /\ UNCHANGED <<op, arg, groups, nvars>>

FetchNotFound ==
    /\ pc = "loop"
    /\ idx > Len(groups)
    /\ ret' = RetErr(NotFoundErr(arg.clientAppID))
    /\ resps' = CloseProfile(resps)
    /\ pc' = "done"
    /\ UNCHANGED <<op, arg, reqs, groups, idx, nvars>>

Next ==
    \/ CallAuthenticate
    \/ CallExport
    \/ CallImport
    \/ CallDiff
    \/ CallFetchAppByClientAppID
    \/ FetchGroup
    \/ FetchNotFound

Spec == Init /\ [][Next]_vars

-----------------------------------------------------------------------------
(* Error normalization on its own: every body of at most MaxBodyLen        *)
(* lexemes.                                                                *)

NormAlphabet == {LB, RB, COMMA, NULL, NUM, Txt("X"), ErrX, ErrNum, ErrNull, MsgM}

NormBodies == SeqsUpTo(NormAlphabet, MaxBodyLen)

InitNorm ==
    /\ nr \in Bodies(NormBodies)
    /\ npc = "start"
    /\ nret = NoErr
    /\ op = "none"
    /\ arg = [serializable |-> TRUE, clientAppID |-> ""]
    /\ pc = "idle"
    /\ reqs = <<>>
    /\ resps = <<>>
    /\ groups = <<>>
    /\ idx = 0
    /\ ret = NoRet

Normalize ==
    /\ npc = "start"
    /\ nret' = UnmarshalReader(nr)
    /\ npc' = "done"
    /\ UNCHANGED <<nr, ovars>>

NextNorm == Normalize

SpecNorm == InitNorm /\ [][NextNorm]_vars

-----------------------------------------------------------------------------
(* Properties                                                              *)

Fetching == op = "FetchAppByClientAppID"
Ended == pc \in {"done", "panic"}
\* the positions in resps of the answers to list-apps requests
AppsPositions == IF Fetching THEN 2..Len(resps) ELSE {}

\* C1: in Authenticate, Import, Diff and FetchAppByClientAppID no response
\* body is closed more than once, the body of a list-apps response is closed
\* as soon as the sub-call has returned, and once the operation has ended
\* every body the transport handed back has been closed exactly once.
C1_BodiesClosedOnce ==
    op \in {"Authenticate", "Import", "Diff", "FetchAppByClientAppID"} =>
        /\ \A i \in 1..Len(resps) : ~resps[i].ok => resps[i].closed = 0
        /\ \A i \in 1..Len(resps) : resps[i].closed <= 1
        /\ \A i \in AppsPositions : resps[i].ok => resps[i].closed = 1
        /\ Ended => \A i \in 1..Len(resps) : resps[i].ok => resps[i].closed = 1

\* a search that a later failure aborted: the first group answered 404, the
\* second a fatal status, and all three bodies are closed
C1_Witness ==
    /\ Fetching /\ pc = "done" /\ Len(resps) = 3
    /\ resps[2].ok /\ resps[2].status = StatusNotFound
    /\ resps[3].ok /\ resps[3].status = 500
    /\ \A i \in 1..3 : resps[i].closed = 1

\* the header parses and carries a non-empty filename parameter
HasFilename(h) ==
    /\ h.mediatype
    /\ \A i \in 1..Len(h.params) : h.params[i].ok
    /\ \A i, j \in 1..Len(h.params) : i # j => h.params[i].name # h.params[j].name
    /\ \E i \in 1..Len(h.params) : h.params[i].name = "filename" /\ h.params[i].value # ""

\* the header parses and carries no filename parameter, or an empty one
LacksFilename(h) ==
    /\ h.mediatype
    /\ \A i \in 1..Len(h.params) : h.params[i].ok
    /\ \A i, j \in 1..Len(h.params) : i # j => h.params[i].name # h.params[j].name
    /\ \A i \in 1..Len(h.params) : h.params[i].name = "filename" => h.params[i].value = ""

\* C2: when Export received a response, it returns the body still open (never
\* closed) iff the status is 200 and the Content-Disposition header parses
\* with a non-empty filename, and then it returns that filename and no error;
\* otherwise the body is closed exactly once and Export returns an empty
\* filename, no stream and an error, which is the missing-filename error when
\* the header parses without a non-empty filename.
C2_ExportStream ==
    (op = "Export" /\ pc = "done" /\ resps[1].ok) =>
        LET a == resps[1]
            good == a.status = StatusOK /\ HasFilename(a.header)
        IN  /\ (ret.stream # 0 /\ a.closed = 0) <=> good
            /\ good => /\ ret.stream = 1
                       /\ ret.err = NoErr
                       /\ Param("filename", ret.filename) \in
                              {a.header.params[i] : i \in 1..Len(a.header.params)}
            /\ ~good => /\ a.closed = 1
                        /\ ret.filename = ""
                        /\ ret.stream = 0
                        /\ ret.err # NoErr
            /\ (a.status = StatusOK /\ LacksFilename(a.header)) =>
                   ret.err = errExportMissingFilename

\* a 200 response whose header parses but names no file: the body is closed
\* and the missing-filename error returned
C2_Witness ==
    /\ op = "Export" /\ pc = "done" /\ resps[1].ok
    /\ resps[1].status = StatusOK
    /\ resps[1].header.params = <<Param("size", "1")>>
    /\ resps[1].closed = 1
    /\ ret.err = errExportMissingFilename

\* what error normalization makes of a response body: the service's error
\* with the normalized message, or the read failure of an unreadable body
Normalized(e, body) ==
    /\ e = UnmarshalReader(body)
    /\ e.kind = (IF body.readable THEN "stitch" ELSE "read")

\* C3: in FetchAppByClientAppID a 404 answer to a list-apps request never
\* ends the search (the next group of the profile is asked next, or, after
\* the last group, the search goes on to its end), and any other non-200
\* answer is the last request: the operation returns at once, with the
\* normalized error of that response.
C3_NotFoundToleratedElseFatal ==
    \A i \in AppsPositions :
        /\ (resps[i].ok /\ resps[i].status = StatusNotFound) =>
               /\ i < Len(resps) => reqs[i + 1] = Req("apps", groups[i])
               /\ i = Len(resps) =>
                      \/ pc = "loop" /\ idx = i /\ ret = NoRet
                      \/ pc = "done" /\ i = Len(groups) + 1
                           /\ ret = RetErr(NotFoundErr(arg.clientAppID))
        /\ (resps[i].ok /\ resps[i].status \notin {StatusOK, StatusNotFound}) =>
               /\ i = Len(resps)
               /\ pc = "done"
               /\ ret.app = <<>>
               /\ Normalized(ret.err, resps[i].body)

\* the first group answered 404 and the search went on to the second, whose
\* fatal status ended it
C3_Witness ==
    /\ Fetching /\ pc = "done" /\ Len(groups) = 2 /\ Len(reqs) = 3
    /\ resps[2].ok /\ resps[2].status = StatusNotFound
    /\ reqs[3] = Req("apps", groups[2])
    /\ resps[3].ok /\ resps[3].status = 500
    /\ ret.err = StitchErr(<<Txt("X")>>)

\* the apps a list-apps answer holds (none for a 404)
AppsOf(a) == IF a.status = StatusOK THEN DecodeApps(a.body).apps ELSE <<>>
\* the answer is a 404, or a 200 list, and no app of it has the requested id
NoMatchIn(a, id) ==
    /\ a.ok
    /\ \/ a.status = StatusNotFound
       \/ a.status = StatusOK /\ DecodeApps(a.body).err = NoErr
    /\ \A k \in 1..Len(AppsOf(a)) : AppsOf(a)[k].nil \/ AppsOf(a)[k].ClientAppID # id

\* C4: FetchAppByClientAppID asks the groups one at a time in the order of
\* AllGroupIDs(); an app it returns is the first of its list with the
\* requested ClientAppID, no earlier group held one, and it is the last
\* request; and once the operation has ended, it has returned the not-found
\* error naming the requested id exactly when every group was asked and each
\* answered 404 or a 200 list with no matching app.
C4_FirstMatchOrNotFound ==
    Fetching =>
        /\ \A i \in 2..Len(reqs) : reqs[i] = Req("apps", groups[i - 1])
        /\ ret.app # <<>> =>
               LET last == AppsOf(resps[Len(resps)]) IN
               /\ pc = "done" /\ ret.err = NoErr
               /\ \A i \in 2..(Len(resps) - 1) : NoMatchIn(resps[i], arg.clientAppID)
               /\ \E k \in 1..Len(last) :
                      /\ last[k] = ret.app[1]
                      /\ ~last[k].nil /\ last[k].ClientAppID = arg.clientAppID
                      /\ \A j \in 1..(k - 1) :
                             last[j].nil \/ last[j].ClientAppID # arg.clientAppID
        /\ (Ended /\ resps[1].ok /\ resps[1].status = StatusOK
                  /\ DecodeProfile(resps[1].body).err = NoErr) =>
               (ret.err = NotFoundErr(arg.clientAppID)
                    <=> /\ Len(resps) = Len(groups) + 1
                        /\ \A i \in 2..Len(resps) : NoMatchIn(resps[i], arg.clientAppID))

\* C7: Import returns no error iff the transport call succeeded and the
\* status is 204; for every other status its error is the normalized error
\* of the response body.
C7_ImportOnly204 ==
    (op = "Import" /\ pc = "done") =>
        /\ ret.err = NoErr <=> (resps[1].ok /\ resps[1].status = StatusNoContent)
        /\ (resps[1].ok /\ resps[1].status # StatusNoContent) =>
               Normalized(ret.err, resps[1].body)

\* a 200 answer to Import: the error built from its body {"error": "X"}
C7_Witness ==
    /\ op = "Import" /\ pc = "done"
    /\ resps[1].ok /\ resps[1].status = StatusOK
    /\ resps[1].body = Body(<<LB, ErrX, RB>>)
    /\ ret.err = StitchErr(<<Txt("X")>>)

\* the error a failed decode of a success response is returned as: the
\* decoder's own error, which is no ErrStitchResponse
DecodeFailure(e, d) == d.err # NoErr => (e = d.err /\ e.kind # "stitch" /\ e # NoErr)

\* C8: when an endpoint answers its success status with a body that does not
\* decode into the expected type, the operation returns the decoder's error:
\* no ErrStitchResponse, no result beside it, and in FetchAppByClientAppID
\* it is the last request.
C8_DecodeFailureReturned ==
    /\ (op = "Authenticate" /\ arg.serializable /\ resps[1].ok /\ resps[1].status = StatusOK)
           => /\ DecodeFailure(ret.err, DecodeAuth(resps[1].body))
              /\ DecodeAuth(resps[1].body).err # NoErr => ret.auth = ""
    /\ (op = "Diff" /\ resps[1].ok /\ resps[1].status = StatusOK)
           => /\ DecodeFailure(ret.err, DecodeDiffs(resps[1].body))
              /\ DecodeDiffs(resps[1].body).err # NoErr => ret.diffs = <<>>
    /\ (Fetching /\ resps[1].ok /\ resps[1].status = StatusOK
                 /\ DecodeProfile(resps[1].body).err # NoErr)
           => /\ DecodeFailure(ret.err, DecodeProfile(resps[1].body))
              /\ pc = "done" /\ Len(reqs) = 1 /\ ret.app = <<>>
    /\ \A i \in AppsPositions :
           (resps[i].ok /\ resps[i].status = StatusOK /\ DecodeApps(resps[i].body).err # NoErr)
               => /\ DecodeFailure(ret.err, DecodeApps(resps[i].body))
                  /\ pc = "done" /\ i = Len(reqs) /\ ret.app = <<>>

\* the first of two groups answered 200 with a body that is no app list
C8_Witness ==
    /\ Fetching /\ pc = "done" /\ Len(groups) = 2 /\ Len(reqs) = 2
    /\ resps[2].ok /\ resps[2].status = StatusOK
    /\ resps[2].body = Body(<<LSQ, LB>>)
    /\ ret.err = DecodeErr("syntax")

\* C9: every request is answered once and none is repeated: Export, Import
\* and Diff make one request, Authenticate one (none when its payload does
\* not serialize), FetchAppByClientAppID one profile request and then at most
\* one list-apps request per entry of the group list; and a request the
\* transport fails is the last one, its failure returned as it is.
C9_NoRetryFailureEnds ==
    /\ Len(resps) = Len(reqs)
    /\ (op \in {"Export", "Import", "Diff"} /\ pc = "done") => Len(reqs) = 1
    /\ (op \in {"Export", "Import", "Diff"}) =>
           \A i \in 1..Len(reqs) : reqs[i].route = (IF op = "Export" THEN "export"
                                                    ELSE IF op = "Import" THEN "import"
                                                    ELSE "diff")
    /\ (op = "Authenticate" /\ pc = "done") =>
           reqs = (IF arg.serializable THEN <<Req("login", "")>> ELSE <<>>)
    /\ Fetching =>
           /\ reqs[1] = Req("profile", "")
           /\ Len(reqs) <= 1 + Len(groups)
           /\ \A i \in 2..Len(reqs) : reqs[i] = Req("apps", groups[i - 1])
    /\ \A i \in 1..Len(resps) :
           ~resps[i].ok =>
               /\ i = Len(reqs)
               /\ pc = "done"
               /\ ret = RetErr(TransportErr(resps[i].terr))

\* the transport fails the request for the first of two groups
C9_Witness ==
    /\ Fetching /\ pc = "done" /\ Len(groups) = 2 /\ Len(reqs) = 2
    /\ ~resps[2].ok /\ resps[2].terr = "timeout"
    /\ ret.err = TransportErr("timeout")

\* C10: FetchAppByClientAppID never aborts abnormally: whatever list of apps
\* a 200 list-apps response decodes to, the scan ends with a match or with
\* no match, and the operation goes on or returns.
C10_ScanNeverAborts == Fetching => pc \in {"loop", "done"}

-----------------------------------------------------------------------------
(* Properties of error normalization (over NormAlphabet, which has no      *)
(* array lexemes: a JSON value is a scalar or an object)                   *)

\* p is the text of one JSON object
IsObjectText(p) ==
    /\ Len(p) >= 2
    /\ p[1] = LB
    /\ p[Len(p)] = RB
    /\ Len(p) > 2 => /\ Len(p) % 2 = 1
                     /\ \A i \in 2..(Len(p) - 1) :
                            IF i % 2 = 0 THEN p[i].t = "mem" ELSE p[i] = COMMA
\* p is the text of one JSON value
IsValueText(p) == (Len(p) = 1 /\ p[1].t \in {"null", "num", "str"}) \/ IsObjectText(p)
\* non-JSON or malformed JSON: the text does not begin with a JSON value
Malformed(s) == \A k \in 1..Len(s) : ~IsValueText(SubSeq(s, 1, k))
\* the text is one JSON object of the shape {error: string}
ErrorShaped(s) ==
    /\ IsObjectText(s)
    /\ \E i \in 1..Len(s) : s[i].t = "mem" /\ s[i].v[1] = "error"
    /\ \A i \in 1..Len(s) : (s[i].t = "mem" /\ s[i].v[1] = "error") => s[i].v[2] = "str"

C6_WrongShapeIsRaw ==
    (npc = "done" /\ nr.readable /\ ~ErrorShaped(nr.text)) => nret = StitchErr(nr.text)

=============================================================================
